---- MODULE Spec2Model ----
\* Table-of-contents node renderer (TOCNode), its active/selected predicates,
\* and the search-result card's highlight + sanitize pipeline.
EXTENDS Integers, Sequences, FiniteSets, TLC

\* ---------------------------------------------------------------------
\* Bounds
\* ---------------------------------------------------------------------
\* longest title / preview, in tokens
MaxTextLen == 2

\* longest search term, in tokens
MaxTermLen == 1

\* most results shown in one list
MaxResults == 3

\* most branches handed to the version dropdown
MaxBranches == 3

\* ---------------------------------------------------------------------
\* The navigation tree (immutable input owned by the caller)
\* ---------------------------------------------------------------------
Nodes == 1..5

\* value of an absent slug / url (undefined)
None == "undefined"

\* toctree-l1 is the level of the top-level sections
BASE_NODE_LEVEL == 1

\* children lists of the sample tree:  1 -> <<2, 4>>, 2 -> <<3>>
ChildrenOf == <<  <<2, 4>>, <<3>>, <<>>, <<>>, <<>>  >>

\* the top-level nodes handed to the renderer, in order
TopLevel == <<1, 5>>

SlugOf == << "a", "a/b", "a/b/c", "a/d", "e" >>

UrlOf == << "http://a", "http://b", "http://c", "http://d", "http://e" >>

\* which nodes carry options.drawer, options.tocicon, and which have a url but no slug
DrawerSets == SUBSET {1, 2, 5}

IconSets == { {}, {2, 4} }

UrlOnlySets == { {}, {4} }

MakeTree(drawers, icons, urlOnly) ==
  [n \in Nodes |->
     [slug     |-> IF n \in urlOnly THEN None ELSE SlugOf[n],
      url      |-> IF n \in urlOnly THEN UrlOf[n] ELSE None,
      children |-> ChildrenOf[n],
      options  |-> [drawer |-> n \in drawers, tocicon |-> n \in icons]]]

\* values activeSection is drawn from
Sections == {SlugOf[n] : n \in Nodes} \cup {"other", UrlOf[4]}

\* the dropdown before its first render
NotRendered == [status |-> "unrendered", options |-> <<>>, legacy |-> FALSE, error |-> "none"]

\* the sentiments getEmojiInfo knows
Sentiments == {"happy", "upset", "suggesting"}

\* document.querySelector(`${StyledTextInput} input`), as a value of focus
SearchInput == 0

\* value of focus while no element of the search bar has it
NoFocus == -1

VARIABLES
  tree,            \* the node objects: slug, url, children, options
  activeSection,   \* prop: identifier of the page being viewed
  rendered,        \* the rendered output: sequence of [node, level] in document order
  isOpen,          \* useState(isActive) of each mounted TOCNode instance
  isHovered,       \* useState(false) of each mounted TOCNode instance
  lastDeps,        \* dependency array the effect of each instance last ran with
  navRequests,     \* navigation requests the last event emitted, in order
  handleClickCalls,\* calls of the supplied handleClick callback during the last event
  lastEvent        \* the trigger that acted last: <<kind, node>>; for a change of
                   \* activeSection, <<"navigate", the instances whose isOpen
                   \* disagreed with their new isActive when the change arrived>>

tocVars == <<tree, activeSection, rendered, isOpen, isHovered, lastDeps,
             navRequests, handleClickCalls, lastEvent>>

VARIABLES
  title,           \* prop of the search-result card: the result's title
  preview,         \* prop of the search-result card: the result's preview text
  searchTerm,      \* SearchContext: the term the user searched for
  titleMarkup,     \* __html set on the title element
  previewMarkup    \* __html set on the preview element

searchVars == <<title, preview, searchTerm, titleMarkup, previewMarkup>>

VARIABLES
  siblings,           \* nodeNames of the children of the results' parent element, in order
  searchContainerRef, \* SearchContext: "undefined", a ref whose current is "null", or "attached"
  focus,              \* the focused element: SearchInput, NoFocus, or an index into siblings
  lastKey             \* <<key, index of the result that received it>> of the last keydown

focusVars == <<siblings, searchContainerRef, focus, lastKey>>

VARIABLES
  emojis,           \* the sentiments that have an Emoji instance on the page
  currPage,         \* prop of the Emoji instances: "sentimentView" or "commentView"
  activeSentiment,  \* useFeedbackState(): the sentiment shared by the widget
  emojiIsActive,    \* useState() isActive of each Emoji: "undefined", "true" or "false"
  emojiDeps,        \* dependency array the effect of each Emoji last ran with
  lastEmojiClick    \* sentiment of the emoji clicked last, None before any click

emojiVars == <<emojis, currPage, activeSentiment, emojiIsActive, emojiDeps, lastEmojiClick>>

VARIABLES
  branches,   \* repoBranches.branches: sequence of [gitBranchName, active]
  groups,     \* repoBranches.groups: sequence of [includedBranches, sharedSlugPrefix]
  project,    \* siteMetadata.project
  pageSlug,   \* prop slug: the slug of the page the dropdown is on
  dropdown    \* what VersionDropdown returned: [status, options, legacy, error]

dropdownVars == <<branches, groups, project, pageSlug, dropdown>>

vars == <<tocVars, searchVars, focusVars, emojiVars, dropdownVars>>

\* ---------------------------------------------------------------------
\* Per-node derived values (TOCNode body, first lines)
\* ---------------------------------------------------------------------
\* const target = slug || url;
target(n) == IF tree[n].slug # None THEN tree[n].slug ELSE tree[n].url

\* const hasChildren = !!children.length;
hasChildren(n) == Len(tree[n].children) > 0

\* const isDrawer = !!(options && options.drawer);
isDrawer(n) == tree[n].options.drawer

\* const isTocIcon = !!options.tocicon;
isTocIcon(n) == tree[n].options.tocicon

\* Selected-Node Predicate: exact match only, no descendant search
isSelectedTocNode(currentUrl, slug) == slug # None /\ slug = currentUrl

\* Active-Node Predicate: the target matches exactly, or any node of the subtree matches
RECURSIVE isActiveTocNode(_, _, _)
isActiveTocNode(currentUrl, slug, children) ==
  \/ (slug # None /\ slug = currentUrl)
  \/ \E i \in 1..Len(children) :
        isActiveTocNode(currentUrl, target(children[i]), tree[children[i]].children)

\* variant: the children are not handed to the predicate
isActiveNoChildren(n, section) == isActiveTocNode(section, tree[n].slug, <<>>)

\* const isActive = isActiveTocNode(activeSection, slug, children);
isActive(n, section) == isActiveTocNode(section, tree[n].slug, tree[n].children)

\* variant: the selected flag is computed with the descendant search
isSelectedDeep(n, section) == isActiveTocNode(section, tree[n].slug, tree[n].children)

\* const isSelected = isSelectedTocNode(activeSection, slug);
isSelected(n, section) == isSelectedTocNode(section, tree[n].slug)

\* variant: useState(false)
useStateInitClosed(n, section) == FALSE

\* useState(isActive): the value isOpen starts with when an instance mounts
useStateInit(n, section) == isActive(n, section)

\* [isActive, isDrawer ? activeSection : null]
NoDeps == <<>>

\* variant: the open state itself is listed among the dependencies
EffectDepsWithOpen(n, section) ==
  <<isActive(n, section), IF isDrawer(n) THEN section ELSE "null", isOpen[n]>>

\* variant: exhaustive-deps as the linter wants it, [isActive]
EffectDepsNoSection(n, section) == <<isActive(n, section), "null">>

EffectDeps(n, section) == <<isActive(n, section), IF isDrawer(n) THEN section ELSE "null">>

\* ---------------------------------------------------------------------
\* Rendering
\* ---------------------------------------------------------------------
SeqToSet(s) == {s[i] : i \in DOMAIN s}

Mounted == {rendered[i].node : i \in DOMAIN rendered}

\* the fragment a TOCNode returns: its NodeLink, then, when isOpen, each child
\* in list order with level + 1.  `open` is the isOpen state of the instances
\* that exist already (`was`); an instance mounting now starts from useState.
RECURSIVE RenderNode(_, _, _, _, _)
RECURSIVE RenderChildren(_, _, _, _, _)
\* variant: the children are rendered whether or not the node is open
RenderNodeAlways(n, level, section, open, was) ==
  <<[node |-> n, level |-> level]>>
    \o RenderChildren(tree[n].children, level + 1, section, open, was)

RenderNode(n, level, section, open, was) ==
  LET o == IF n \in was THEN open[n] ELSE useStateInit(n, section)
  IN  <<[node |-> n, level |-> level]>>
        \o (IF o THEN RenderChildren(tree[n].children, level + 1, section, open, was)
                 ELSE <<>>)

RenderChildren(cs, level, section, open, was) ==
  IF cs = <<>> THEN <<>>
  ELSE RenderNode(Head(cs), level, section, open, was)
         \o RenderChildren(Tail(cs), level, section, open, was)

\* one render + commit of the whole list: instances that stay keep their state,
\* instances that appear are initialised, instances that disappear are destroyed
Commit(section, open, hov, deps) ==
  /\ rendered' = RenderChildren(TopLevel, BASE_NODE_LEVEL, section, open, Mounted)
  /\ isOpen' = [n \in Nodes |->
                  IF n \notin Mounted' THEN FALSE
                  ELSE IF n \in Mounted THEN open[n]
                  ELSE useStateInit(n, section)]
  /\ isHovered' = [n \in Nodes |-> n \in Mounted' /\ n \in Mounted /\ hov[n]]
  /\ lastDeps' = [n \in Nodes |->
                    IF n \in Mounted' /\ n \in Mounted THEN deps[n] ELSE NoDeps]

\* instances whose effect has to run: just mounted, or a dependency changed
PendingEffects == {n \in Mounted : lastDeps[n] # EffectDeps(n, activeSection)}

Settled == PendingEffects = {}

\* ---------------------------------------------------------------------
\* Search-result card: markup tokens
\* ---------------------------------------------------------------------
\* palette.yellow.light2, the colour of SEARCH_MATCH_STYLE
HighlightColor == "yellow.light2"

\* a string is modelled as the sequence of tokens an HTML parser reads from it:
\* characters, opening tags with their attributes and style declarations,
\* and closing tags
Txt(c) == [kind |-> "text", name |-> c, attrs |-> {}, styles |-> {}]

OpenTag(tag, attrs, styles) == [kind |-> "open", name |-> tag, attrs |-> attrs, styles |-> styles]

CloseTag(tag) == [kind |-> "close", name |-> tag, attrs |-> {}, styles |-> {}]

\* `<span style="${SEARCH_MATCH_STYLE}">`
HighlightOpen == OpenTag("span", {}, {<<"background-color", HighlightColor>>})

\* tokens the sample titles, previews and search terms are made of
Alphabet ==
  { Txt("a"), Txt("A"), Txt("b"),
    OpenTag("script", {}, {}), CloseTag("script"),
    OpenTag("span", {"onclick"},
            {<<"background-color", HighlightColor>>, <<"position", "fixed">>}),
    OpenTag("span", {}, {<<"background-color", "red">>}),
    CloseTag("span"),
    OpenTag("img", {"onerror"}, {}) }

SeqsUpTo(S, k) == UNION {[1..m -> S] : m \in 0..k}

Texts == SeqsUpTo(Alphabet, MaxTextLen)

\* tokens the sample search terms are made of
TermAlphabet ==
  { Txt("a"), Txt("b"),
    OpenTag("script", {}, {}),
    OpenTag("span", {"onclick"},
            {<<"background-color", HighlightColor>>, <<"position", "fixed">>}) }

Terms == SeqsUpTo(TermAlphabet, MaxTermLen)

\* previews are drawn from a few samples; the card treats them like titles
Previews ==
  { <<>>,
    <<Txt("a"), OpenTag("script", {}, {}), Txt("b"), CloseTag("script"), Txt("A")>>,
    <<OpenTag("span", {"onclick"},
              {<<"background-color", HighlightColor>>, <<"position", "fixed">>}),
      Txt("a"), Txt("b")>> }

\* the 'i' flag of the RegExp: characters compare without case
FoldCase(t) == IF t = Txt("A") THEN Txt("a") ELSE t

MatchesAt(text, i, term) ==
  /\ i + Len(term) - 1 <= Len(text)
  /\ \A k \in 1..Len(term) : FoldCase(text[i + k - 1]) = FoldCase(term[k])

\* text.replace(new RegExp(escapeRegExp(searchTerm), 'gi'), (result) => `<span ...>${result}</span>`)
\* every match, left to right and without overlap, is wrapped; the empty
\* term matches at every position
RECURSIVE HighlightFrom(_, _, _)
HighlightFrom(text, i, term) ==
  IF term = <<>>
  THEN IF i > Len(text) THEN <<HighlightOpen, CloseTag("span")>>
       ELSE <<HighlightOpen, CloseTag("span"), text[i]>> \o HighlightFrom(text, i + 1, term)
  ELSE IF i > Len(text) THEN <<>>
  ELSE IF MatchesAt(text, i, term)
  THEN <<HighlightOpen>> \o SubSeq(text, i, i + Len(term) - 1) \o <<CloseTag("span")>>
         \o HighlightFrom(text, i + Len(term), term)
  ELSE <<text[i]>> \o HighlightFrom(text, i + 1, term)

highlightSearchTerm(text, term) == HighlightFrom(text, 1, term)

\* the options handed to sanitizeHtml
allowedTags == {"span"}

allowedAttributes(tag) == IF tag = "span" THEN {"style"} ELSE {}

allowedStyles(tag) == IF tag = "span" THEN {<<"background-color", HighlightColor>>} ELSE {}

\* tags whose text content is dropped with them
nonTextTags == {"script", "style", "textarea", "option"}

\* an allowed tag keeps its allowed attributes, and of a kept style attribute
\* the allowed declarations
FilterTag(t) ==
  OpenTag(t.name, t.attrs \cap allowedAttributes(t.name),
          IF "style" \in allowedAttributes(t.name)
          THEN t.styles \cap allowedStyles(t.name) ELSE {})

\* closing tags, innermost first, for the allowed tags among the open ones
RECURSIVE CloseAll(_)
CloseAll(stack) ==
  IF stack = <<>> THEN <<>>
  ELSE (IF stack[Len(stack)] \in allowedTags THEN <<CloseTag(stack[Len(stack)])>> ELSE <<>>)
         \o CloseAll(SubSeq(stack, 1, Len(stack) - 1))

LastIndexOf(stack, tag) ==
  IF \E i \in DOMAIN stack : stack[i] = tag
  THEN CHOOSE i \in DOMAIN stack : stack[i] = tag /\ \A j \in DOMAIN stack : stack[j] = tag => j <= i
  ELSE 0

\* sanitizeHtml over the token stream: `stack` holds the open tags, `skip` says
\* that the text of a non-text tag is being dropped
RECURSIVE SanitizeFrom(_, _, _)
SanitizeFrom(toks, stack, skip) ==
  IF toks = <<>> THEN CloseAll(stack)
  ELSE LET t == Head(toks)
           rest == Tail(toks)
       IN  IF skip
           THEN IF t.kind = "close" /\ t.name = stack[Len(stack)]
                THEN SanitizeFrom(rest, SubSeq(stack, 1, Len(stack) - 1), FALSE)
                ELSE SanitizeFrom(rest, stack, TRUE)
           ELSE IF t.kind = "text" THEN <<t>> \o SanitizeFrom(rest, stack, FALSE)
           ELSE IF t.kind = "open"
           THEN IF t.name \in allowedTags
                THEN <<FilterTag(t)>> \o SanitizeFrom(rest, Append(stack, t.name), FALSE)
                ELSE SanitizeFrom(rest, Append(stack, t.name), t.name \in nonTextTags)
           ELSE IF LastIndexOf(stack, t.name) = 0
           THEN SanitizeFrom(rest, stack, FALSE)
           ELSE CloseAll(SubSeq(stack, LastIndexOf(stack, t.name), Len(stack)))
                  \o SanitizeFrom(rest, SubSeq(stack, 1, LastIndexOf(stack, t.name) - 1), FALSE)

\* variant: the highlighted text is set as markup as it is
sanitizePreviewHtmlSkipped(text) == text

\* sanitizeHtml(text, { allowedTags, allowedAttributes, allowedStyles })
sanitizePreviewHtml(text) == SanitizeFrom(text, <<>>, FALSE)

\* the two dangerouslySetInnerHTML of the card
RenderCard(t, p, term) ==
  /\ titleMarkup' = sanitizePreviewHtml(highlightSearchTerm(t, term))
  /\ previewMarkup' = sanitizePreviewHtml(highlightSearchTerm(p, term))

\* ---------------------------------------------------------------------
\* Initial state: the first render of the list
\* ---------------------------------------------------------------------
Init ==
  /\ \E d \in DrawerSets, i \in IconSets, u \in UrlOnlySets : tree = MakeTree(d, i, u)
  /\ activeSection \in Sections
  /\ rendered = RenderChildren(TopLevel, BASE_NODE_LEVEL, activeSection,
                               [n \in Nodes |-> FALSE], {})
  /\ isOpen = [n \in Nodes |->
                 n \in {rendered[i].node : i \in DOMAIN rendered}
                 /\ useStateInit(n, activeSection)]
  /\ isHovered = [n \in Nodes |-> FALSE]
  /\ lastDeps = [n \in Nodes |-> NoDeps]
  /\ navRequests = <<>>
  /\ handleClickCalls = 0
  /\ lastEvent = <<"mount", 0>>
  /\ title = <<>>
  /\ preview = <<>>
  /\ searchTerm = <<>>
  /\ titleMarkup = <<>>
  /\ previewMarkup = <<>>
  /\ siblings = <<"A">>
  /\ searchContainerRef = "undefined"
  /\ focus = NoFocus
  /\ lastKey = <<"none", 0>>
  /\ emojis = {}
  /\ currPage = "sentimentView"
  /\ activeSentiment = None
  /\ emojiIsActive = [e \in Sentiments |-> "undefined"]
  /\ emojiDeps = [e \in Sentiments |-> <<>>]
  /\ lastEmojiClick = None
  /\ branches = <<>>
  /\ groups = <<>>
  /\ project = "docs"
  /\ pageSlug = "get-started"
  /\ dropdown = NotRendered

\* ---------------------------------------------------------------------
\* Actions
\* ---------------------------------------------------------------------
\* useEffect(() => { setIsOpen(isActive); }, deps): every pending effect runs,
\* then the state updates are rendered
RunEffects ==
  /\ ~Settled
  /\ Commit(activeSection,
            [n \in Nodes |-> IF n \in PendingEffects
                             THEN isActive(n, activeSection) ELSE isOpen[n]],
            isHovered,
            [n \in Nodes |-> IF n \in PendingEffects
                             THEN EffectDeps(n, activeSection) ELSE lastDeps[n]])
  /\ UNCHANGED <<tree, activeSection, navRequests, handleClickCalls, lastEvent>>
  /\ UNCHANGED <<searchVars, focusVars, emojiVars, dropdownVars>>

\* the parent supplies a different activeSection and the list re-renders
ChangeActiveSection(section) ==
  /\ Settled
  /\ section # activeSection
  /\ activeSection' = section
  /\ Commit(section, isOpen, isHovered, lastDeps)
  /\ lastEvent' = <<"navigate", {n \in Mounted : isOpen[n] # isActive(n, section)}>>
  /\ navRequests' = <<>>
  /\ handleClickCalls' = 0
  /\ UNCHANGED tree
  /\ UNCHANGED <<searchVars, focusVars, emojiVars, dropdownVars>>

\* variant: the drawer item is a Link as well
ToggleDrawerAndNavigate(n) ==
  /\ Commit(activeSection, [isOpen EXCEPT ![n] = ~isOpen[n]], isHovered, lastDeps)
  /\ navRequests' = <<target(n)>>
  /\ handleClickCalls' = 1
  /\ UNCHANGED <<tree, activeSection>>

\* onClick={() => { setIsOpen(!isOpen); }} of the drawer items
ToggleDrawer(n) ==
  /\ Commit(activeSection, [isOpen EXCEPT ![n] = ~isOpen[n]], isHovered, lastDeps)
  /\ navRequests' = <<>>
  /\ handleClickCalls' = 0
  /\ UNCHANGED <<tree, activeSection>>
  /\ UNCHANGED <<searchVars, focusVars, emojiVars, dropdownVars>>

\* variant: to={slug}
FollowLinkSlug(n) ==
  /\ navRequests' = <<tree[n].slug>>
  /\ handleClickCalls' = 1
  /\ UNCHANGED <<tree, activeSection, rendered, isOpen, isHovered, lastDeps>>

\* <SideNavItem as={Link} to={target} onClick={handleClick}>
FollowLink(n) ==
  /\ navRequests' = <<target(n)>>
  /\ handleClickCalls' = 1
  /\ UNCHANGED <<tree, activeSection, rendered, isOpen, isHovered, lastDeps>>

\* variant: every node flagged drawer gets the toggle, children or not
ClickDrawerFlagOnly(n) ==
  /\ Settled
  /\ n \in Mounted
  /\ IF isDrawer(n) THEN ToggleDrawer(n) ELSE FollowLink(n)
  /\ lastEvent' = <<"click", n>>
  /\ UNCHANGED <<searchVars, focusVars, emojiVars, dropdownVars>>

\* a click on the NodeLink of a mounted node
Click(n) ==
  /\ Settled
  /\ n \in Mounted
  /\ IF isDrawer(n) /\ hasChildren(n) THEN ToggleDrawer(n) ELSE FollowLink(n)
  /\ lastEvent' = <<"click", n>>
  /\ UNCHANGED <<searchVars, focusVars, emojiVars, dropdownVars>>

\* variant: one hover flag shared by all icon nodes
MouseEnterShared(n) ==
  /\ Settled
  /\ n \in Mounted
  /\ isTocIcon(n)
  /\ Commit(activeSection, isOpen, [m \in Nodes |-> isTocIcon(m)], lastDeps)
  /\ lastEvent' = <<"mouseenter", n>>
  /\ navRequests' = <<>>
  /\ handleClickCalls' = 0
  /\ UNCHANGED <<tree, activeSection>>
  /\ UNCHANGED <<searchVars, focusVars, emojiVars, dropdownVars>>

\* onMouseEnter={() => setIsHovered(true)} of SyncCloud
MouseEnter(n) ==
  /\ Settled
  /\ n \in Mounted
  /\ isTocIcon(n)
  /\ Commit(activeSection, isOpen, [isHovered EXCEPT ![n] = TRUE], lastDeps)
  /\ lastEvent' = <<"mouseenter", n>>
  /\ navRequests' = <<>>
  /\ handleClickCalls' = 0
  /\ UNCHANGED <<tree, activeSection>>
  /\ UNCHANGED <<searchVars, focusVars, emojiVars, dropdownVars>>

\* onMouseLeave={() => setIsHovered(false)} of SyncCloud
MouseLeave(n) ==
  /\ Settled
  /\ n \in Mounted
  /\ isTocIcon(n)
  /\ Commit(activeSection, isOpen, [isHovered EXCEPT ![n] = FALSE], lastDeps)
  /\ lastEvent' = <<"mouseleave", n>>
  /\ navRequests' = <<>>
  /\ handleClickCalls' = 0
  /\ UNCHANGED <<tree, activeSection>>
  /\ UNCHANGED <<searchVars, focusVars, emojiVars, dropdownVars>>

Next ==
  \/ RunEffects
  \/ \E section \in Sections : ChangeActiveSection(section)
  \/ \E n \in Nodes : Click(n)
  \/ \E n \in Nodes : MouseEnter(n)
  \/ \E n \in Nodes : MouseLeave(n)

Spec == Init /\ [][Next]_vars

\* ---------------------------------------------------------------------
\* Search-result card: specification
\* ---------------------------------------------------------------------
\* a card that has its props and has not rendered yet; the table of contents
\* is left at a fixed list
SearchInit ==
  /\ tree = MakeTree({}, {}, {})
  /\ activeSection = "other"
  /\ rendered = RenderChildren(TopLevel, BASE_NODE_LEVEL, activeSection,
                               [n \in Nodes |-> FALSE], {})
  /\ isOpen = [n \in Nodes |-> FALSE]
  /\ isHovered = [n \in Nodes |-> FALSE]
  /\ lastDeps = [n \in Nodes |-> NoDeps]
  /\ navRequests = <<>>
  /\ handleClickCalls = 0
  /\ lastEvent = <<"mount", 0>>
  /\ title \in Texts
  /\ preview \in Previews
  /\ searchTerm \in Terms
  /\ titleMarkup = <<>>
  /\ previewMarkup = <<>>
  /\ siblings = <<"A">>
  /\ searchContainerRef = "undefined"
  /\ focus = NoFocus
  /\ lastKey = <<"none", 0>>
  /\ emojis = {}
  /\ currPage = "sentimentView"
  /\ activeSentiment = None
  /\ emojiIsActive = [e \in Sentiments |-> "undefined"]
  /\ emojiDeps = [e \in Sentiments |-> <<>>]
  /\ lastEmojiClick = None
  /\ branches = <<>>
  /\ groups = <<>>
  /\ project = "docs"
  /\ pageSlug = "get-started"
  /\ dropdown = NotRendered

\* the card renders with its props and the term of the context
RenderSearchResult ==
  /\ RenderCard(title, preview, searchTerm)
  /\ UNCHANGED <<title, preview, searchTerm>>
  /\ UNCHANGED <<tocVars, focusVars, emojiVars, dropdownVars>>

\* the context supplies another search term and the card renders again
ChangeSearchTerm(term) ==
  /\ term # searchTerm
  /\ searchTerm' = term
  /\ RenderCard(title, preview, term)
  /\ UNCHANGED <<title, preview>>
  /\ UNCHANGED <<tocVars, focusVars, emojiVars, dropdownVars>>

SearchNext ==
  \/ \E term \in Terms : ChangeSearchTerm(term)
  \/ RenderSearchResult

SearchSpec == SearchInit /\ [][SearchNext]_vars

\* ---------------------------------------------------------------------
\* Search-result card: arrow-key navigation
\* ---------------------------------------------------------------------
\* nodeName of a SearchResultLink (styled('a'))
LinkNodeName == "A"

\* the results' parent holds the result links, after at most one element that
\* is not a link (the text above the results)
Layouts ==
  { header \o [i \in 1..k |-> LinkNodeName] :
      header \in { <<>>, <<"P">> }, k \in 1..MaxResults }

ContainerRefs == {"undefined", "null", "attached"}

Keys == {"ArrowDown", "ArrowUp", "Enter"}

Results == {i \in DOMAIN siblings : siblings[i] = LinkNodeName}

\* searchContainerRef.current.querySelector(`${SearchResultLink}`)
FirstLink == IF Results = {} THEN 0 ELSE CHOOSE i \in Results : \A j \in Results : i <= j

\* variant: the last result keeps the focus
onArrowDownNoWrap(i) ==
  IF i + 1 <= Len(siblings) THEN i + 1 ELSE focus

\* onArrowDown: the element that has the focus afterwards
onArrowDown(i) ==
  IF i + 1 <= Len(siblings) THEN i + 1
  ELSE IF searchContainerRef = "attached" /\ FirstLink # 0 THEN FirstLink
  ELSE focus

\* onArrowUp: the element that has the focus afterwards
onArrowUp(i) ==
  IF i - 1 >= 1
  THEN IF siblings[i - 1] # siblings[i] THEN SearchInput ELSE i - 1
  ELSE focus

\* onKeyDown of the result link that has the focus
KeyDown(key) ==
  /\ focus \in Results
  /\ focus' = IF searchContainerRef = "undefined" THEN focus
              ELSE IF key = "ArrowDown" THEN onArrowDown(focus)
              ELSE IF key = "ArrowUp" THEN onArrowUp(focus)
              ELSE focus
  /\ lastKey' = <<key, focus>>
  /\ UNCHANGED <<siblings, searchContainerRef>>
  /\ UNCHANGED <<tocVars, searchVars, emojiVars, dropdownVars>>

\* the user moves the focus to a result link (<a href>) by tab or pointer
FocusResult(i) ==
  /\ i \in Results
  /\ focus # i
  /\ focus' = i
  /\ lastKey' = <<"none", 0>>
  /\ UNCHANGED <<siblings, searchContainerRef>>
  /\ UNCHANGED <<tocVars, searchVars, emojiVars, dropdownVars>>

\* a list of results is shown and one of them has the focus; the table of
\* contents and the card's markup are left at fixed values
FocusInit ==
  /\ tree = MakeTree({}, {}, {})
  /\ activeSection = "other"
  /\ rendered = RenderChildren(TopLevel, BASE_NODE_LEVEL, activeSection,
                               [n \in Nodes |-> FALSE], {})
  /\ isOpen = [n \in Nodes |-> FALSE]
  /\ isHovered = [n \in Nodes |-> FALSE]
  /\ lastDeps = [n \in Nodes |-> NoDeps]
  /\ navRequests = <<>>
  /\ handleClickCalls = 0
  /\ lastEvent = <<"mount", 0>>
  /\ title = <<>>
  /\ preview = <<>>
  /\ searchTerm = <<>>
  /\ titleMarkup = <<>>
  /\ previewMarkup = <<>>
  /\ siblings \in Layouts
  /\ searchContainerRef \in ContainerRefs
  /\ focus \in Results
  /\ lastKey = <<"none", 0>>
  /\ emojis = {}
  /\ currPage = "sentimentView"
  /\ activeSentiment = None
  /\ emojiIsActive = [e \in Sentiments |-> "undefined"]
  /\ emojiDeps = [e \in Sentiments |-> <<>>]
  /\ lastEmojiClick = None
  /\ branches = <<>>
  /\ groups = <<>>
  /\ project = "docs"
  /\ pageSlug = "get-started"
  /\ dropdown = NotRendered

FocusNext ==
  \/ \E key \in Keys : KeyDown(key)
  \/ \E i \in 1..(MaxResults + 1) : FocusResult(i)

FocusSpec == FocusInit /\ [][FocusNext]_vars

\* ---------------------------------------------------------------------
\* Feedback widget: Emoji
\* ---------------------------------------------------------------------
Pages == {"sentimentView", "commentView"}

\* variant: the effect depends on [sentiment] only
EmojiEffectDepsNoActive(e) == <<"-", e>>

\* [activeSentiment, sentiment]
EmojiEffectDeps(e) == <<activeSentiment, e>>

PendingEmojiEffects == {e \in emojis : emojiDeps[e] # EmojiEffectDeps(e)}

EmojiSettled == PendingEmojiEffects = {}

\* the first render of the Emoji instances: isActive is useState(), undefined
EmojiInit ==
  /\ tree = MakeTree({}, {}, {})
  /\ activeSection = "other"
  /\ rendered = RenderChildren(TopLevel, BASE_NODE_LEVEL, activeSection,
                               [n \in Nodes |-> FALSE], {})
  /\ isOpen = [n \in Nodes |-> FALSE]
  /\ isHovered = [n \in Nodes |-> FALSE]
  /\ lastDeps = [n \in Nodes |-> NoDeps]
  /\ navRequests = <<>>
  /\ handleClickCalls = 0
  /\ lastEvent = <<"mount", 0>>
  /\ title = <<>>
  /\ preview = <<>>
  /\ searchTerm = <<>>
  /\ titleMarkup = <<>>
  /\ previewMarkup = <<>>
  /\ siblings = <<"A">>
  /\ searchContainerRef = "undefined"
  /\ focus = NoFocus
  /\ lastKey = <<"none", 0>>
  /\ emojis \in (SUBSET Sentiments) \ {{}}
  /\ currPage \in Pages
  /\ activeSentiment \in Sentiments \cup {None}
  /\ emojiIsActive = [e \in Sentiments |-> "undefined"]
  /\ emojiDeps = [e \in Sentiments |-> <<>>]
  /\ lastEmojiClick = None
  /\ branches = <<>>
  /\ groups = <<>>
  /\ project = "docs"
  /\ pageSlug = "get-started"
  /\ dropdown = NotRendered

\* useEffect(() => { setIsActive(activeSentiment == sentiment); }, deps) of
\* every Emoji whose dependencies changed
RunEmojiEffects ==
  /\ ~EmojiSettled
  /\ emojiIsActive' = [e \in Sentiments |->
                         IF e \in PendingEmojiEffects
                         THEN (IF activeSentiment = e THEN "true" ELSE "false")
                         ELSE emojiIsActive[e]]
  /\ emojiDeps' = [e \in Sentiments |->
                     IF e \in PendingEmojiEffects THEN EmojiEffectDeps(e) ELSE emojiDeps[e]]
  /\ UNCHANGED <<emojis, currPage, activeSentiment, lastEmojiClick>>
  /\ UNCHANGED <<tocVars, searchVars, focusVars, dropdownVars>>

\* the setter useFeedbackState() hands out: the shared sentiment becomes s
setActiveSentiment(s) == activeSentiment' = s

\* CommentWrapper onClick={() => setActiveSentiment(sentiment)}
ClickEmoji(e) ==
  /\ EmojiSettled
  /\ currPage = "commentView"
  /\ e \in emojis
  /\ setActiveSentiment(e)
  /\ lastEmojiClick' = e
  /\ UNCHANGED <<emojis, currPage, emojiIsActive, emojiDeps>>
  /\ UNCHANGED <<tocVars, searchVars, focusVars, dropdownVars>>

EmojiNext ==
  \/ RunEmojiEffects
  \/ \E e \in Sentiments : ClickEmoji(e)

EmojiSpec == EmojiInit /\ [][EmojiNext]_vars

\* ---------------------------------------------------------------------
\* Version dropdown
\* ---------------------------------------------------------------------
BranchNames == {"master", "v1.0", "v0.9"}

Branch == [gitBranchName : BranchNames, active : BOOLEAN]

BranchLists == UNION {[1..k -> Branch] : k \in 0..MaxBranches}

GroupLists ==
  { <<>>,
    << [includedBranches |-> <<"v1.0", "v0.9">>, sharedSlugPrefix |-> "sdk/android"] >>,
    << [includedBranches |-> <<"v0.9">>, sharedSlugPrefix |-> "sdk/ios"],
       [includedBranches |-> <<"master", "v1.0">>, sharedSlugPrefix |-> "sdk/android"] >> }

Projects == {"docs", "realm"}

Slugs == {"get-started", "sdk/android/install", "sdk/node/install"}

\* String.prototype.includes on the sample slugs
SlugIncludes(s, part) ==
  <<s, part>> \in { <<"sdk/android/install", "sdk/">>,
                   <<"sdk/android/install", "sdk/android">>,
                   <<"sdk/node/install", "sdk/">> }

\* the identifiers the module defines or imports include no groupBranches
groupBranchesDefined == FALSE

Nothing == [status |-> "null", options |-> <<>>, legacy |-> FALSE, error |-> "none"]

Threw(e) == [status |-> "error", options |-> <<>>, legacy |-> FALSE, error |-> e]

\* Returns true if there are any inactive (EOL'd/"legacy") branches
needsLegacyDropdown(bs) == \E i \in DOMAIN bs : ~bs[i].active

\* groups.map((g) => g['includedBranches']).flat()
RECURSIVE Flat(_)
Flat(gs) == IF gs = <<>> THEN <<>> ELSE Head(gs).includedBranches \o Flat(Tail(gs))

\* Returns all branches that are neither in 'groups' nor inactive
getActiveUngroupedBranches(bs, gs) ==
  SelectSeq(bs, LAMBDA b : b.gitBranchName \notin SeqToSet(Flat(gs)) /\ b.active)

\* the <Select>: one createOption per active ungrouped branch, then the
\* 'Legacy Docs' option when needsLegacyDropdown
SelectOf(bs, gs) ==
  [status |-> "select",
   options |-> [i \in DOMAIN getActiveUngroupedBranches(bs, gs) |->
                  getActiveUngroupedBranches(bs, gs)[i].gitBranchName],
   legacy |-> needsLegacyDropdown(bs),
   error |-> "none"]

\* the body of VersionDropdown from the length check on
RenderBranches(bs, gs) ==
  IF Len(bs) < 2 THEN Nothing
  ELSE IF ~groupBranchesDefined THEN Threw("ReferenceError")
  ELSE SelectOf(bs, gs)

\* groups = groups.filter((g) => slug.includes(g['sharedSlugPrefix']))
RealmGroups(gs, s) == SelectSeq(gs, LAMBDA g : SlugIncludes(s, g.sharedSlugPrefix))

\* VersionDropdown({ repoBranches: { branches, groups }, slug })
VersionDropdown(bs, gs, proj, s) ==
  IF proj = "realm" /\ SlugIncludes(s, "sdk/")
  THEN IF RealmGroups(gs, s) = <<>> THEN Threw("TypeError")
       ELSE RenderBranches(
              SelectSeq(bs, LAMBDA b :
                 b.gitBranchName \in SeqToSet(RealmGroups(gs, s)[1].includedBranches)),
              RealmGroups(gs, s))
  ELSE RenderBranches(bs, gs)

\* the props of a dropdown that has not rendered yet; the other components
\* are left at fixed values
DropdownInit ==
  /\ tree = MakeTree({}, {}, {})
  /\ activeSection = "other"
  /\ rendered = RenderChildren(TopLevel, BASE_NODE_LEVEL, activeSection,
                               [n \in Nodes |-> FALSE], {})
  /\ isOpen = [n \in Nodes |-> FALSE]
  /\ isHovered = [n \in Nodes |-> FALSE]
  /\ lastDeps = [n \in Nodes |-> NoDeps]
  /\ navRequests = <<>>
  /\ handleClickCalls = 0
  /\ lastEvent = <<"mount", 0>>
  /\ title = <<>>
  /\ preview = <<>>
  /\ searchTerm = <<>>
  /\ titleMarkup = <<>>
  /\ previewMarkup = <<>>
  /\ siblings = <<"A">>
  /\ searchContainerRef = "undefined"
  /\ focus = NoFocus
  /\ lastKey = <<"none", 0>>
  /\ emojis = {}
  /\ currPage = "sentimentView"
  /\ activeSentiment = None
  /\ emojiIsActive = [e \in Sentiments |-> "undefined"]
  /\ emojiDeps = [e \in Sentiments |-> <<>>]
  /\ lastEmojiClick = None
  /\ branches \in BranchLists
  /\ groups \in GroupLists
  /\ project \in Projects
  /\ pageSlug \in Slugs
  /\ dropdown = NotRendered

\* the dropdown renders with its props
RenderVersionDropdown ==
  /\ dropdown' = VersionDropdown(branches, groups, project, pageSlug)
  /\ UNCHANGED <<branches, groups, project, pageSlug>>
  /\ UNCHANGED <<tocVars, searchVars, focusVars, emojiVars>>

DropdownNext == RenderVersionDropdown

DropdownSpec == DropdownInit /\ [][DropdownNext]_vars

\* ---------------------------------------------------------------------
\* Tree helpers used by the properties
\* ---------------------------------------------------------------------
RECURSIVE Descendants(_)
Descendants(n) ==
  SeqToSet(tree[n].children) \cup UNION {Descendants(c) : c \in SeqToSet(tree[n].children)}

ProperAncestors(n) == {m \in Nodes : n \in Descendants(m)}

IsDrawerWithChildren(n) == tree[n].options.drawer /\ Len(tree[n].children) > 0

\* slug, or url when the slug is absent
Destination(n) == IF tree[n].slug # None THEN tree[n].slug ELSE tree[n].url

PositionOf(n) == CHOOSE i \in DOMAIN rendered : rendered[i].node = n

\* ---------------------------------------------------------------------
\* Properties
\* ---------------------------------------------------------------------
\* C1: a click on a drawer node with children flips that node's isOpen and
\* emits no navigation request and no handleClick call, whatever isActive and
\* isOpen are.
C1_DrawerClickToggles ==
  [][\A n \in Nodes :
       (Click(n) /\ IsDrawerWithChildren(n))
         => /\ isOpen'[n] = ~isOpen[n]
            /\ navRequests' = <<>>
            /\ handleClickCalls' = 0]_vars

\* a drawer that contains the active page has been closed by a click
C1_Witness ==
  \E n \in Mounted :
    /\ lastEvent = <<"click", n>>
    /\ IsDrawerWithChildren(n)
    /\ isActive(n, activeSection)
    /\ ~isOpen[n]
    /\ navRequests = <<>>

\* C2: a click on a node that is not a drawer-with-children emits exactly one
\* navigation request, to the node's slug or else url, calls handleClick
\* exactly once and leaves the node's isOpen alone.
C2_LinkClickNavigates ==
  [][\A n \in Nodes :
       (Click(n) /\ ~IsDrawerWithChildren(n))
         => /\ navRequests' = <<Destination(n)>>
            /\ handleClickCalls' = 1
            /\ isOpen'[n] = isOpen[n]]_vars

\* a url-only node and a childless drawer have been clicked
C2_Witness ==
  \E n \in Mounted :
    /\ lastEvent = <<"click", n>>
    /\ \/ tree[n].slug = None
       \/ (tree[n].options.drawer /\ tree[n].children = <<>>)
    /\ navRequests = <<Destination(n)>>
    /\ handleClickCalls = 1

\* C3: once the effects of a change of activeSection have run, every mounted
\* node has isOpen equal to its isActive for the new activeSection.
C3_NavigationResyncs ==
  (lastEvent[1] = "navigate" /\ Settled)
    => \A n \in Mounted : isOpen[n] = isActive(n, activeSection)

\* a drawer whose isOpen disagreed with the new isActive has been resynchronised
C3_Witness ==
  /\ lastEvent[1] = "navigate"
  /\ Settled
  /\ \E n \in Mounted \cap lastEvent[2] :
        IsDrawerWithChildren(n) /\ ~isOpen[n] /\ ~isActive(n, activeSection)

\* C4: in a step that is not part of a change of activeSection, the isOpen of
\* a drawer that stays mounted changes only by a click on that drawer.
C4_OnlyOwnClickChangesDrawer ==
  [][\A n \in Nodes :
       ( /\ lastEvent'[1] # "navigate"
         /\ n \in Mounted
         /\ n \in Mounted'
         /\ IsDrawerWithChildren(n)
         /\ isOpen'[n] # isOpen[n] )
         => Click(n)]_vars

\* a toggled drawer still disagrees with isActive after an event on another node
C4_Witness ==
  \E n \in Mounted :
    /\ IsDrawerWithChildren(n)
    /\ isOpen[n] # isActive(n, activeSection)
    /\ Settled
    /\ lastEvent[1] \in {"click", "mouseenter", "mouseleave"}
    /\ lastEvent[2] # n

\* C5: once the effects of a change of activeSection to the slug of a node
\* have run, that node is rendered and every one of its ancestors is mounted
\* and open.
C5_ActiveChainOpen ==
  (lastEvent[1] = "navigate" /\ Settled)
    => \A n \in Nodes :
         tree[n].slug = activeSection
           => /\ n \in Mounted
              /\ \A m \in ProperAncestors(n) : m \in Mounted /\ isOpen[m]

\* the chain to a node of depth 3 is open, through an ancestor that was closed
C5_Witness ==
  /\ lastEvent[1] = "navigate"
  /\ Settled
  /\ \E n \in Mounted :
       /\ tree[n].slug = activeSection
       /\ Cardinality(ProperAncestors(n)) = 2
       /\ \E m \in ProperAncestors(n) \cap lastEvent[2] : isOpen[m]

C7_RenderedIffAncestorsOpen ==
  /\ \A n \in Nodes :
       n \in Mounted <=> \A m \in ProperAncestors(n) : m \in Mounted /\ isOpen[m]
  /\ Len(rendered) = Cardinality(Mounted)
  /\ \A i \in DOMAIN rendered :
       rendered[i].level = BASE_NODE_LEVEL + Cardinality(ProperAncestors(rendered[i].node))
  /\ \A p \in Mounted : \A i \in DOMAIN tree[p].children :
       tree[p].children[i] \in Mounted
         => /\ PositionOf(p) < PositionOf(tree[p].children[i])
            /\ \A j \in DOMAIN tree[p].children :
                 (i < j /\ tree[p].children[j] \in Mounted)
                   => PositionOf(tree[p].children[i]) < PositionOf(tree[p].children[j])
  /\ \A i, j \in DOMAIN TopLevel :
       i < j => PositionOf(TopLevel[i]) < PositionOf(TopLevel[j])

\* an open node shows both children at level 2 while a closed child hides its own
C7_Witness ==
  /\ Settled
  /\ lastEvent[1] = "click"
  /\ isOpen[1]
  /\ ~isOpen[2]
  /\ Mounted = {1, 2, 4, 5}
  /\ rendered[2] = [node |-> 2, level |-> 2]
  /\ rendered[3] = [node |-> 4, level |-> 2]

\* C8: an instance that mounts, at the first render or when an ancestor is
\* opened again, starts with isOpen equal to its isActive for the current
\* activeSection.
C8_MountStartsFromIsActive ==
  /\ \A n \in Mounted : isOpen[n] = isActive(n, activeSection)
  /\ [][\A n \in Nodes :
          (n \notin Mounted /\ n \in Mounted')
            => isOpen'[n] = isActive(n, activeSection')]_vars

\* a drawer below a drawer that a click has just opened is mounted closed
C8_Witness ==
  \E p \in Mounted :
    /\ lastEvent = <<"click", p>>
    /\ IsDrawerWithChildren(p)
    /\ isOpen[p]
    /\ \E i \in DOMAIN tree[p].children :
         LET c == tree[p].children[i]
         IN  /\ IsDrawerWithChildren(c)
             /\ c \in Mounted
             /\ lastDeps[c] = NoDeps
             /\ ~isOpen[c]

\* a token that the allow-list lets through: text, a closing span, or an
\* opening span with no attribute but a style holding at most the highlight
\* background-color
IsAllowedToken(t) ==
  \/ t.kind = "text"
  \/ t.kind = "close" /\ t.name = "span"
  \/ /\ t.kind = "open"
     /\ t.name = "span"
     /\ t.attrs = {}
     /\ t.styles \subseteq {<<"background-color", "yellow.light2">>}

\* C9: the title markup and the preview markup of the search-result card hold
\* only allowed tokens, whatever the title, the preview and the search term.
C9_MarkupIsSanitized ==
  /\ \A i \in DOMAIN titleMarkup : IsAllowedToken(titleMarkup[i])
  /\ \A i \in DOMAIN previewMarkup : IsAllowedToken(previewMarkup[i])

\* a title with a span carrying onclick and a match of the search term is
\* rendered with the attribute gone and the highlight kept
C9_Witness ==
  /\ Len(title) = 2
  /\ title[1].kind = "open" /\ "onclick" \in title[1].attrs
  /\ title[2] = Txt("A")
  /\ searchTerm = <<Txt("a")>>
  /\ Len(titleMarkup) = 5
  /\ titleMarkup[2].styles = {<<"background-color", "yellow.light2">>}
  /\ titleMarkup[3] = Txt("A")
  /\ Len(preview) = 5
  /\ Len(previewMarkup) = 6

\* C10: a click on a drawer changes no other node's isOpen or isHovered and
\* not the tree; a hover event changes only that node's isHovered and no isOpen.
C10_StateOwnedByNode ==
  [][/\ tree' = tree
     /\ \A n \in Nodes :
          (Click(n) /\ IsDrawerWithChildren(n))
            => \A m \in (Mounted \cap Mounted') \ {n} :
                  isOpen'[m] = isOpen[m] /\ isHovered'[m] = isHovered[m]
     /\ \A n \in Nodes :
          (MouseEnter(n) \/ MouseLeave(n))
            => /\ isOpen' = isOpen
               /\ \A m \in Nodes \ {n} : isHovered'[m] = isHovered[m]]_vars

\* an icon node is hovered while another icon node is not and a drawer is open
C10_Witness ==
  \E n \in Mounted :
    /\ lastEvent = <<"mouseenter", n>>
    /\ isHovered[n]
    /\ \E m \in Mounted \ {n} : isTocIcon(m) /\ ~isHovered[m]
    /\ \E d \in Mounted : IsDrawerWithChildren(d) /\ isOpen[d] /\ ~isActive(d, activeSection)

\* C11: in every settled state a mounted node that is not a drawer with
\* children has isOpen equal to isActive, after any clicks, hovers and
\* changes of activeSection.
C11_LinkNodeOpenIffActive ==
  Settled
    => \A n \in Mounted :
         ~IsDrawerWithChildren(n) => isOpen[n] = isActive(n, activeSection)

\* after a click on it, a link node with children still shows them because a
\* descendant is the active page, and a childless drawer that was clicked
\* stays closed
C11_Witness ==
  /\ Settled
  /\ \E n \in Mounted :
       /\ lastEvent = <<"click", n>>
       /\ ~IsDrawerWithChildren(n)
       /\ \/ /\ tree[n].children # <<>>
             /\ isOpen[n]
             /\ tree[n].slug # activeSection
          \/ /\ tree[n].options.drawer
             /\ ~isOpen[n]
  /\ \E m \in Mounted :
       ~tree[m].options.drawer /\ tree[m].children # <<>> /\ ~isOpen[m]

\* C12: with a search container attached, ArrowDown on a result focuses the
\* next result and on the last result the first one; ArrowUp focuses the
\* previous result and, on a first result that follows an element which is
\* not a link, the search input; the focus stays on a result or the input.
\* Without a search container reference no key moves the focus.
C12_ArrowKeysMoveFocus ==
  [][\A key \in Keys :
       KeyDown(key)
         => /\ focus' \in Results \cup {SearchInput}
            /\ searchContainerRef = "undefined" => focus' = focus
            /\ (searchContainerRef = "attached" /\ key = "ArrowDown")
                 => focus' = IF focus = Len(siblings)
                             THEN (IF siblings[1] = "A" THEN 1 ELSE 2)
                             ELSE focus + 1
            /\ (searchContainerRef = "attached" /\ key = "ArrowUp" /\ focus > 1)
                 => focus' = IF siblings[focus - 1] = "A" THEN focus - 1 ELSE SearchInput]_vars

\* ArrowDown on the last of three results has wrapped the focus to the first
\* result, which follows the text above the results
C12_Witness ==
  /\ searchContainerRef = "attached"
  /\ siblings = <<"P", "A", "A", "A">>
  /\ lastKey = <<"ArrowDown", 4>>
  /\ focus = 2

\* C13: in every settled state of the comment view an Emoji is active exactly
\* when its sentiment is the shared activeSentiment, so at most one is; after
\* a click on the emoji of a sentiment, that sentiment is the active one.
C13_OneActiveSentiment ==
  (EmojiSettled /\ currPage = "commentView")
    => /\ \A e \in emojis : (emojiIsActive[e] = "true") <=> (activeSentiment = e)
       /\ \A e \in emojis : emojiIsActive[e] \in {"true", "false"}
       /\ Cardinality({e \in emojis : emojiIsActive[e] = "true"}) <= 1
       /\ lastEmojiClick # None
            => activeSentiment = lastEmojiClick /\ emojiIsActive[lastEmojiClick] = "true"

\* with all three emojis shown and another sentiment chosen before, a click
\* on the idea emoji has made it the only active one
C13_Witness ==
  /\ EmojiSettled
  /\ currPage = "commentView"
  /\ emojis = {"happy", "upset", "suggesting"}
  /\ lastEmojiClick = "suggesting"
  /\ emojiIsActive = [e \in {"happy", "upset", "suggesting"} |->
                        IF e = "suggesting" THEN "true" ELSE "false"]
  /\ emojiDeps["happy"] = <<"suggesting", "happy">>

\* C14: the version dropdown renders nothing for fewer than 2 branches;
\* otherwise its ungrouped options are the active branches that no group
\* includes, one each in input order, and 'Legacy Docs' is present exactly
\* when some supplied branch is inactive.
C14_DropdownOptions ==
  dropdown.status # "unrendered"
    => IF Len(branches) < 2
       THEN dropdown.status = "null"
       ELSE /\ dropdown.status = "select"
            /\ dropdown.options =
                 [i \in DOMAIN SelectSeq(branches, LAMBDA b :
                         b.active /\ \A j \in DOMAIN groups :
                            b.gitBranchName \notin SeqToSet(groups[j].includedBranches)) |->
                    SelectSeq(branches, LAMBDA b :
                         b.active /\ \A j \in DOMAIN groups :
                            b.gitBranchName \notin SeqToSet(groups[j].includedBranches))[i].gitBranchName]
            /\ dropdown.legacy = (\E i \in DOMAIN branches : ~branches[i].active)

TypeOK ==
  /\ activeSection \in Sections
  /\ isOpen \in [Nodes -> BOOLEAN]
  /\ isHovered \in [Nodes -> BOOLEAN]
  /\ Len(navRequests) <= 1
====
